---- MODULE Spec2Model ----
(***************************************************************************)
(* State-machine model of the HWID client (src/client.py, src/run.py):     *)
(* key initialisation, the encrypted settings store with its .bak          *)
(* protocol, remote verification with bounded retry, and the menu loop.    *)
(* One client process runs at a time; the files outlive the process.       *)
(***************************************************************************)
EXTENDS Integers, Sequences, FiniteSets, TLC

VARIABLES
    os,             \* platform the interpreter runs on: decides Path.rename onto an existing target
    keyFile,        \* contents of key.key
    settingsFile,   \* contents of settings.dll
    bakFile,        \* contents of settings.bak
    pc,             \* position of the process: run.py main / HWIDClient.run / verify_hwid / save_settings
    settings,       \* self.settings
    cipher,         \* key held by self.cipher_suite
    loadLog,        \* what load_settings logged in this run
    session,        \* self.session: "none", "open", "closed"
    sessionsOpened, \* number of aiohttp.ClientSession() calls in this run
    attempt,        \* loop variable of verify_hwid
    requests,       \* session.post calls made so far by the verify_hwid call
    sleeps,         \* asyncio.sleep(RETRY_DELAY) calls made so far by the verify_hwid call
    sleepTotal,     \* seconds slept so far by the verify_hwid call
    onlyNetErrors,  \* every request of the verify_hwid call ended in a network-level error
    lastResp,       \* outcome of the latest request of the verify_hwid call
    verdict,        \* return site of verify_hwid
    message,        \* what verify_hwid printed on its return
    menuShown,      \* display_menu was called in this run
    lastOp,         \* menu operation executed most recently in this run
    updInput,       \* what the user typed into update_settings
    preFile,        \* settings.dll as it was when the current update_settings started
    backupPath,     \* local backup_path of save_settings is set
    saveResult,     \* how the current save_settings call ended
    didRead,        \* settings.dll was read in this run
    endKind,        \* how the latest run ended
    interrupted,    \* the latest save was interrupted between its rename and the end of its write
    staleBak,       \* settings.bak was left behind by a save_settings call that did not return
    hwid            \* what get_hwid returned in this run

fsVars     == <<os, keyFile, settingsFile, bakFile, staleBak>>
verifyVars == <<attempt, requests, sleeps, sleepTotal, onlyNetErrors, lastResp, verdict, message>>
saveVars   == <<updInput, preFile, backupPath, saveResult>>
vars == <<os, keyFile, settingsFile, bakFile, pc, settings, cipher, loadLog, session,
          sessionsOpened, attempt, requests, sleeps, sleepTotal, onlyNetErrors, lastResp,
          verdict, message, menuShown, lastOp, updInput, preFile, backupPath, saveResult,
          didRead, endKind, interrupted, staleBak, hwid>>

----------------------------------------------------------------------------
(* Program constants *)

MAX_RETRIES == 3
RETRY_DELAY == 2
DEFAULT_TOTAL_DAY == 36600
DEFAULT_COMMIT_FREQ == 100

(* Bound on the length of what the user types at a numeric prompt *)
MaxInputLen == 2

----------------------------------------------------------------------------
(* Strings the code inspects character by character are sequences of characters *)

Digits == {"0", "1", "2", "7"}

DigitValue(c) == CASE c = "0" -> 0 [] c = "1" -> 1 [] c = "2" -> 2 [] c = "7" -> 7

\* str.isdigit(): non-empty and every character a digit
IsDigit(s) == Len(s) > 0 /\ \A i \in 1..Len(s) : s[i] \in Digits

\* int(s) for a string of digits
RECURSIVE IntOf(_)
IntOf(s) == IF Len(s) = 0 THEN 0
            ELSE 10 * IntOf(SubSeq(s, 1, Len(s) - 1)) + DigitValue(s[Len(s)])

\* str.strip(): drop leading and trailing white space
RECURSIVE Strip(_)
Strip(s) == IF Len(s) = 0 THEN s
            ELSE IF s[1] = " " THEN Strip(Tail(s))
            ELSE IF s[Len(s)] = " " THEN Strip(SubSeq(s, 1, Len(s) - 1))
            ELSE s

\* str.endswith(suffix)
EndsWith(s, suffix) ==
    /\ Len(s) >= Len(suffix)
    /\ SubSeq(s, Len(s) - Len(suffix) + 1, Len(s)) = suffix

DotGit == <<".", "g", "i", "t">>

DefaultRepoLink ==
    <<"h","t","t","p","s",":","/","/","g","i","t","h","u","b",".","c","o","m","/",
      "u","s","e","r","n","a","m","e","/","r","e","p","o">> \o DotGit

----------------------------------------------------------------------------
(* Settings dataclass *)

SettingsFields == {"total_day", "commit_freq", "variability", "repo_link",
                   "commit_message_template", "author_name", "author_email"}

DefaultSettings ==
    [total_day |-> DEFAULT_TOTAL_DAY,
     commit_freq |-> DEFAULT_COMMIT_FREQ,
     variability |-> FALSE,
     repo_link |-> DefaultRepoLink,
     commit_message_template |-> "commit #{}",
     author_name |-> "PG Mohd Azhan FIkri",
     author_email |-> "harrydotmyx@gmail.com"]

\* asdict(self.settings): the fields in the order of their declaration
FieldOrder == <<"total_day", "commit_freq", "variability", "repo_link",
                "commit_message_template", "author_name", "author_email">>

\* names hasattr finds on a Settings instance: its fields, and names every object has
InstanceAttrs == SettingsFields \cup {"__doc__", "__class__"}

\* hasattr(self.settings, key)
HasAttr(key) == key \in InstanceAttrs

\* setattr(self.settings, key, value) raises TypeError: __class__ must be set to a class
SetAttrFails(key) == key = "__class__"

----------------------------------------------------------------------------
(* JSON text of a settings object: each member carries its JSON type *)

JsonType(field) ==
    IF field \in {"total_day", "commit_freq"} THEN "number"
    ELSE IF field = "variability" THEN "bool"
    ELSE "string"

\* variant: one field is left out of the saved object
Dumps_DropsField(rec) ==
    [kind |-> "object",
     order |-> Tail(FieldOrder),
     members |-> [f \in DOMAIN rec \ {"total_day"} |-> [t |-> JsonType(f), v |-> rec[f]]]]

\* json.dumps(asdict(self.settings))
Dumps(rec) ==
    [kind |-> "object",
     order |-> FieldOrder,
     members |-> [f \in DOMAIN rec |-> [t |-> JsonType(f), v |-> rec[f]]]]

\* json.loads(text): raises on text that is not JSON
LoadsFails(text) == text.kind = "notjson"

\* the Python value of a JSON member
PyValue(member) == member.v

----------------------------------------------------------------------------
(* Fernet tokens and files *)

Keys == {"K1", "K2", "K3"}

NoFile  == [kind |-> "none"]
Garbage == [kind |-> "garbage"]        \* a truncated or empty file

\* self.cipher_suite.encrypt(data)
Encrypt(key, text) == [kind |-> "token", key |-> key, text |-> text]

\* self.cipher_suite.decrypt(data) raises unless data is a token made with the same key
DecryptFails(key, file) == file.kind # "token" \/ file.key # key

Decrypt(key, file) == file.text

Exists(file) == file.kind # "none"

\* exception classes below Exception; KeyboardInterrupt and CancelledError are not
ExceptionClasses == {"InvalidToken", "JSONDecodeError", "AttributeError", "ClientError",
                     "TimeoutError", "OSError", "FileExistsError", "ValueError",
                     "TypeError", "EOFError"}

----------------------------------------------------------------------------
(* HWIDClient.load_settings, started from the record `start` *)

\* for key, value in settings_dict.items(): setattr when hasattr, else warn; the loop
\* runs in the order of the document and stops at the first setattr that raises
RECURSIVE MergeItems(_, _, _, _)
MergeItems(acc, warned, members, order) ==
    IF order = << >>
    THEN [settings |-> acc, unknown |-> warned, error |-> "none"]
    ELSE LET key == Head(order) IN
         IF ~HasAttr(key)
         THEN MergeItems(acc, warned \cup {key}, members, Tail(order))
         ELSE IF SetAttrFails(key)
         THEN [settings |-> acc, unknown |-> warned, error |-> "TypeError"]
         ELSE MergeItems(IF key \in SettingsFields
                         THEN [acc EXCEPT ![key] = PyValue(members[key])]
                         ELSE acc,
                         warned, members, Tail(order))

MergeSettings(start, text) == MergeItems(start, {}, text.members, text.order)

\* the exception lines 118-123 raise before the first item, "none" when they complete
LoadError(file, key) ==
    IF DecryptFails(key, file) THEN "InvalidToken"
    ELSE IF LoadsFails(Decrypt(key, file)) THEN "JSONDecodeError"
    ELSE IF Decrypt(key, file).kind # "object" THEN "AttributeError"   \* no .items()
    ELSE "none"

\* variant: the clause catches nothing
CatchesException_Nothing(err) == FALSE

\* variant: `except ValueError`, which covers JSONDecodeError only
CatchesException_ValueError(err) == err \in {"ValueError", "JSONDecodeError"}

\* `except Exception` catches err
CatchesException(err) == err \in ExceptionClasses

LoadSettings(start, file, key) ==
    IF ~Exists(file)
    THEN [settings |-> start, failed |-> FALSE, unknown |-> {}, raised |-> FALSE,
          read |-> FALSE]
    ELSE IF LoadError(file, key) # "none"
    THEN [settings |-> start,
          failed |-> CatchesException(LoadError(file, key)),
          unknown |-> {},
          raised |-> ~CatchesException(LoadError(file, key)),
          read |-> TRUE]
    ELSE LET m == MergeSettings(start, Decrypt(key, file)) IN
         [settings |-> m.settings,
          failed |-> (m.error # "none" /\ CatchesException(m.error)),
          unknown |-> m.unknown,
          raised |-> (m.error # "none" /\ ~CatchesException(m.error)),
          read |-> TRUE]

NoLog == [failed |-> FALSE, unknown |-> {}]

----------------------------------------------------------------------------
(* HWIDClient.init_encryption *)

KeyFileOf(key) == [kind |-> "key", key |-> key]
BadKeyFile == [kind |-> "bad"]          \* bytes Fernet() rejects, e.g. a truncated file

\* keys that made a token found on disk: os.urandom never produces them again
UsedKeys == {f.key : f \in {g \in {settingsFile, bakFile} : g.kind = "token"}}

\* the key the KDF derives from os.urandom: new, and one new key is like any other
DerivedKeys == {CHOOSE k \in Keys : k \notin UsedKeys}

\* what write_bytes can do: write the file, fail before creating it, fail after creating it
WriteOutcomes == {"written", "failed_no_file", "failed_partial"}

\* variant: a key is derived and written on every call
InitEncryption_Regenerates(file, newKey, outcome) ==
    [ok |-> TRUE, key |-> newKey, file |-> KeyFileOf(newKey)]

\* variant: the key of an unusable file is not rejected
InitEncryption_NoCheck(file, newKey, outcome) ==
    IF Exists(file) /\ file.kind = "key"
    THEN [ok |-> TRUE, key |-> file.key, file |-> file]
    ELSE [ok |-> TRUE, key |-> newKey, file |-> file]

\* newKey: what the KDF derives; outcome: what write_bytes of the key file does
InitEncryption(file, newKey, outcome) ==
    IF ~Exists(file)
    THEN IF outcome = "written"
         THEN [ok |-> TRUE, key |-> newKey, file |-> KeyFileOf(newKey)]
         ELSE [ok |-> FALSE, key |-> "none",
               file |-> IF outcome = "failed_partial" THEN BadKeyFile ELSE file]
    ELSE IF file.kind = "key"
         THEN [ok |-> TRUE, key |-> file.key, file |-> file]
         ELSE [ok |-> FALSE, key |-> "none", file |-> file]

----------------------------------------------------------------------------
(* HWIDClient.verify_hwid: outcomes of one request and their interpretation *)

JsonValues == {"true", "false", "absent", "text"}   \* "text": a non-empty string
StatusValues == {"active", "pending", "absent"}
ErrorValues == {"absent", "rate limited"}

Object(e, v, s, m) ==
    [kind |-> "object", exists |-> e, verified |-> v, status |-> s, error |-> m]

\* bodies tried with status 200: every combination of the three fields the code reads
OkBodies ==
    {[kind |-> "nonjson"], [kind |-> "array"]} \cup
    {Object(e, v, s, "absent") : e \in JsonValues, v \in JsonValues, s \in StatusValues}

\* bodies tried with an error status: with and without an error message
ErrorBodies ==
    {[kind |-> "nonjson"], [kind |-> "array"]} \cup
    {Object(e, e, s, m) : e \in {"true", "absent"}, s \in {"active", "absent"},
                          m \in ErrorValues}

Outcomes ==
    {[kind |-> "neterr", err |-> e] : e \in {"client_error", "timeout"}} \cup
    {[kind |-> "http", status |-> 200, body |-> b] : b \in OkBodies} \cup
    {[kind |-> "http", status |-> 429, body |-> b] : b \in ErrorBodies}

NoResp == [kind |-> "none"]
NoMessage == [kind |-> "none", text |-> ""]

\* truth value of data.get(field) in a condition
Truthy(v) == v \in {"true", "text"}

\* the exception the try block of one attempt raises, "none" when it completes
AttemptError(resp) ==
    IF resp.kind = "neterr"
    THEN (IF resp.err = "client_error" THEN "ClientError" ELSE "TimeoutError")
    ELSE IF resp.body.kind = "nonjson" THEN "ClientError"    \* response.json(): ContentTypeError
    ELSE IF resp.body.kind = "array" THEN "AttributeError"   \* data.get
    ELSE "none"

\* the condition of line 179
IsVerifiedActive(data) ==
    Truthy(data.exists) /\ Truthy(data.verified) /\ data.status = "active"

\* lines 178-191: the verdict and the message for a parsed response
Interpret(status, data) ==
    IF status = 200
    THEN IF IsVerifiedActive(data)
         THEN [verdict |-> "verified-active",
               message |-> [kind |-> "verified", text |-> ""]]
         ELSE [verdict |-> "not-verified-or-inactive",
               message |-> IF ~Truthy(data.verified)
                           THEN [kind |-> "not_verified_yet", text |-> ""]
                           ELSE IF data.status # "active"
                           THEN [kind |-> "status_is", text |-> data.status]
                           ELSE NoMessage]
    ELSE [verdict |-> "not-verified-or-inactive",
          message |-> [kind |-> "verification_failed",
                       text |-> IF data.error = "absent" THEN "Unknown error"
                                ELSE data.error]]

\* variant: the retry test off by one
ShouldRetry_OffByOne(a) == a < MAX_RETRIES

\* attempt < self.MAX_RETRIES - 1
ShouldRetry(a) == a < MAX_RETRIES - 1

\* the message of the final failed attempt: `except aiohttp.ClientError` comes first
FinalErrorMessage(err) ==
    IF err = "ClientError" THEN [kind |-> "connection_error", text |-> ""]
    ELSE [kind |-> "error_during_verification", text |-> ""]

----------------------------------------------------------------------------
(* HWIDClient.run: the finally clause *)

\* variant: the session is not closed
Finally_Leak(s) == s

\* if self.session: await self.session.close()
Finally(s) == IF s = "open" THEN "closed" ELSE s

\* variant: only a transient error ends the run
Denied_OnlyTransient(v) == v = "transient-error"

\* variant: the result of verify_hwid is not tested
Denied_Never(v) == FALSE

\* if not await self.verify_hwid(hwid): ... return
Denied(v) == v # "verified-active"

----------------------------------------------------------------------------
(* HWIDClient.update_settings: validation of what the user types *)

\* the strings tried at the numeric prompts
NumCandidates == {<< >>, <<"0">>, <<"7">>, <<"x">>, <<"-", "7">>, <<"0", "7">>,
                  <<"1", "2", "0">>}
NumInputs == {s \in NumCandidates : Len(s) <= MaxInputLen}

\* the strings tried at the yes/no prompt
VarInputs == {<<"y", "e", "s">>, <<"Y", "e", "s", " ">>, <<"n", "o">>, << >>}

\* the strings tried at the repository prompt
RepoInputs == {<<"a">> \o DotGit, <<"a">> \o DotGit \o <<" ">>, <<"a", ".", "g", "i">>,
               <<"g", "i", "t">>, << >>}

\* variant: the sign test is missing
NumberRejected_NoSignTest(s) == ~IsDigit(s)

\* not s.isdigit() or int(s) <= 0
NumberRejected(s) == ~IsDigit(s) \/ IntOf(s) <= 0

LowerChar(c) == IF c = "Y" THEN "y" ELSE c

\* str.lower()
Lower(s) == [i \in 1..Len(s) |-> LowerChar(s[i])]

\* console.input(...).strip().lower() == "yes"
IsYes(s) == Lower(Strip(s)) = <<"y", "e", "s">>

\* not repo_link.endswith('.git'), repo_link being the stripped input
RepoRejected(s) == ~EndsWith(Strip(s), DotGit)

----------------------------------------------------------------------------
(* pathlib.Path.rename: on Windows it raises FileExistsError when the target exists,
   elsewhere it replaces the target *)

Rename(platform, src, dst) ==
    IF platform = "windows" /\ Exists(dst)
    THEN [ok |-> FALSE, src |-> src, dst |-> dst]
    ELSE [ok |-> TRUE, src |-> NoFile, dst |-> src]

\* if backup_path and backup_path.exists()
HasBackup(path, bak) == path /\ Exists(bak)

----------------------------------------------------------------------------
(* Initial states: no process yet, and the files a previous installation can have left *)

StoredRecord ==
    [total_day |-> 7, commit_freq |-> 7, variability |-> TRUE,
     repo_link |-> <<"a">> \o DotGit,
     commit_message_template |-> "commit #{}",
     author_name |-> "A",
     author_email |-> "a@b.c"]

\* a file of another version: two known fields and one unknown field
PartialObject ==
    [kind |-> "object",
     order |-> <<"total_day", "foo", "variability">>,
     members |-> [f \in {"total_day", "variability", "foo"} |->
                    IF f = "total_day" THEN [t |-> "number", v |-> 7]
                    ELSE IF f = "variability" THEN [t |-> "bool", v |-> TRUE]
                    ELSE [t |-> "number", v |-> 1]]]

\* a file whose object carries names of object attributes that are no fields
DunderObject ==
    [kind |-> "object",
     order |-> <<"total_day", "__doc__", "__class__", "commit_freq">>,
     members |-> [f \in {"total_day", "__doc__", "__class__", "commit_freq"} |->
                    IF f \in {"total_day", "commit_freq"} THEN [t |-> "number", v |-> 7]
                    ELSE [t |-> "string", v |-> "x"]]]

InitKeyFiles == {NoFile, KeyFileOf("K1"), BadKeyFile}

InitSettingsFiles ==
    {NoFile, Garbage,
     Encrypt("K1", Dumps(StoredRecord)),
     Encrypt("K2", Dumps(StoredRecord)),
     Encrypt("K1", [kind |-> "notjson"]),
     Encrypt("K1", [kind |-> "array"]),
     Encrypt("K1", PartialObject),
     Encrypt("K1", DunderObject)}

NoInterrupt == [set |-> FALSE, orig |-> DefaultSettings]

\* how a save_settings call stands: status "none" (no update in progress), "not_called",
\* "failing" (an exception is on its way to the handler), "raised", "ok"; step: the
\* step that raised; error: the exception that leaves save_settings
SaveState(status, step, error) == [status |-> status, step |-> step, error |-> error]
NoSave == SaveState("none", "none", "none")

\* the state of a process that has just started
FreshRun ==
    /\ session' = "none"
    /\ sessionsOpened' = 0
    /\ attempt' = 0
    /\ requests' = 0
    /\ sleeps' = 0
    /\ sleepTotal' = 0
    /\ onlyNetErrors' = TRUE
    /\ lastResp' = NoResp
    /\ verdict' = "none"
    /\ message' = NoMessage
    /\ menuShown' = FALSE
    /\ lastOp' = "none"
    /\ updInput' = << >>
    /\ preFile' = NoFile
    /\ backupPath' = FALSE
    /\ saveResult' = NoSave
    /\ hwid' = "none"

Init ==
    /\ os \in {"posix", "windows"}
    /\ keyFile \in InitKeyFiles
    /\ settingsFile \in InitSettingsFiles
    /\ bakFile = NoFile
    /\ pc = "idle"
    /\ settings = DefaultSettings
    /\ cipher = "none"
    /\ loadLog = NoLog
    /\ session = "none"
    /\ sessionsOpened = 0
    /\ attempt = 0
    /\ requests = 0
    /\ sleeps = 0
    /\ sleepTotal = 0
    /\ onlyNetErrors = TRUE
    /\ lastResp = NoResp
    /\ verdict = "none"
    /\ message = NoMessage
    /\ menuShown = FALSE
    /\ lastOp = "none"
    /\ updInput = << >>
    /\ preFile = NoFile
    /\ backupPath = FALSE
    /\ saveResult = NoSave
    /\ didRead = FALSE
    /\ endKind = "none"
    /\ interrupted = NoInterrupt
    /\ staleBak = FALSE
    /\ hwid = "none"

\* leaving HWIDClient.run through its finally clause; the process exits and its
\* client object is gone
EndRun(kind) ==
    /\ pc' = "ended"
    /\ session' = Finally(session)
    /\ endKind' = kind
    /\ settings' = DefaultSettings
    /\ cipher' = "none"
    /\ loadLog' = NoLog

----------------------------------------------------------------------------
(* run.py main: client = HWIDClient(), i.e. __init__ with init_encryption and
   load_settings; an exception of __init__ ends the process *)

Construct(newKey, outcome) ==
    /\ pc \in {"idle", "ended"}
    /\ newKey \in DerivedKeys
    /\ LET enc == InitEncryption(keyFile, newKey, outcome)
           ld  == LoadSettings(DefaultSettings, settingsFile, enc.key)
       IN /\ keyFile' = enc.file
          /\ IF enc.ok /\ ~ld.raised
             THEN /\ pc' = "get_hwid"
                  /\ cipher' = enc.key
                  /\ settings' = ld.settings
                  /\ loadLog' = [failed |-> ld.failed, unknown |-> ld.unknown]
                  /\ didRead' = ld.read
                  /\ endKind' = "running"
             ELSE /\ pc' = "ended"
                  /\ cipher' = "none"
                  /\ settings' = DefaultSettings
                  /\ loadLog' = NoLog
                  /\ didRead' = (enc.ok /\ ld.read)
                  /\ endKind' = IF enc.ok THEN "load_raised" ELSE "init_failed"
    /\ FreshRun
    /\ UNCHANGED <<os, settingsFile, bakFile, interrupted, staleBak>>

\* variant: the result of get_hwid is not tested
HwidMissing_Never(h) == FALSE

\* if not hwid: return
HwidMissing(h) == h = "None"

(* HWIDClient.run, lines 362-364: get_hwid returns the digest, or None on an error *)
GetHwid(ok) ==
    /\ pc = "get_hwid"
    /\ hwid' = IF ok THEN "digest" ELSE "None"
    /\ IF HwidMissing(hwid')
       THEN EndRun("no_hwid")
       ELSE pc' = "verify" /\ UNCHANGED <<session, endKind, settings, cipher, loadLog>>
    /\ interrupted' = NoInterrupt
    /\ UNCHANGED <<fsVars, sessionsOpened, verifyVars, menuShown, lastOp, saveVars,
                   didRead>>

----------------------------------------------------------------------------
(* HWIDClient.verify_hwid *)

\* lines 158-159: if not self.session: self.session = aiohttp.ClientSession()
VerifyBegin ==
    /\ pc = "verify"
    /\ session' = IF session = "none" THEN "open" ELSE session
    /\ sessionsOpened' = IF session = "none" THEN sessionsOpened + 1 ELSE sessionsOpened
    /\ pc' = "request"
    /\ UNCHANGED <<fsVars, settings, cipher, loadLog, verifyVars, menuShown, lastOp,
                   saveVars, didRead, hwid, endKind, interrupted>>

\* one iteration of the loop: the POST and what follows it, up to the sleep or the return
Request(resp) ==
    /\ pc = "request"
    /\ requests' = requests + 1
    /\ lastResp' = resp
    /\ onlyNetErrors' = (onlyNetErrors /\ resp.kind = "neterr")
    /\ LET err == AttemptError(resp) IN
       IF err = "none"
       THEN /\ verdict' = Interpret(resp.status, resp.body).verdict
            /\ message' = Interpret(resp.status, resp.body).message
            /\ pc' = "verify_returned"
       ELSE IF ShouldRetry(attempt)
       THEN /\ pc' = "sleep"
            /\ UNCHANGED <<verdict, message>>
       ELSE /\ verdict' = "transient-error"
            /\ message' = FinalErrorMessage(err)
            /\ pc' = "verify_returned"
    /\ UNCHANGED <<fsVars, settings, cipher, loadLog, session, sessionsOpened, attempt,
                   sleeps, sleepTotal, menuShown, lastOp, saveVars, didRead, hwid,
                   endKind, interrupted>>

\* await asyncio.sleep(self.RETRY_DELAY); continue. Line 208 is the end of the loop.
Sleep ==
    /\ pc = "sleep"
    /\ sleeps' = sleeps + 1
    /\ sleepTotal' = sleepTotal + RETRY_DELAY
    /\ attempt' = attempt + 1
    /\ IF attempt + 1 < MAX_RETRIES
       THEN pc' = "request" /\ UNCHANGED <<verdict, message>>
       ELSE /\ pc' = "verify_returned"
            /\ verdict' = "loop-exhausted"
            /\ message' = NoMessage
    /\ UNCHANGED <<fsVars, settings, cipher, loadLog, session, sessionsOpened, requests,
                   onlyNetErrors, lastResp, menuShown, lastOp, saveVars, didRead, hwid, endKind, interrupted>>

\* variant: the except clauses of the loop take the interrupt as one more failed attempt
InterruptCaught_AsFailure(site) == TRUE

\* an except clause of verify_hwid catches an interrupt raised at `site`: the clauses
\* guard the POST only (the sleep is inside a clause), and `except Exception` does not
\* catch KeyboardInterrupt or CancelledError
InterruptCaught(site) == site = "request" /\ CatchesException("CancelledError")

\* KeyboardInterrupt or cancellation while verify_hwid awaits the POST or the sleep:
\* when no except clause of verify_hwid or run catches it, the finally clause of run runs
InterruptVerify ==
    /\ pc \in {"request", "sleep"}
    /\ IF InterruptCaught(pc)
       THEN /\ ShouldRetry(attempt)
            /\ pc' = IF pc = "request" THEN "sleep" ELSE "request"
            /\ attempt' = IF pc = "request" THEN attempt ELSE attempt + 1
            /\ UNCHANGED <<session, endKind, settings, cipher, loadLog>>
       ELSE EndRun("interrupted") /\ UNCHANGED attempt
    /\ UNCHANGED <<fsVars, sessionsOpened, requests, sleeps, sleepTotal, onlyNetErrors,
                   lastResp, verdict, message, menuShown, lastOp, saveVars,
                   didRead, hwid, interrupted>>

\* HWIDClient.run, lines 366-369
AfterVerify ==
    /\ pc = "verify_returned"
    /\ IF Denied(verdict)
       THEN EndRun("denied")
       ELSE pc' = "menu" /\ UNCHANGED <<session, endKind, settings, cipher, loadLog>>
    /\ attempt' = 0
    /\ requests' = 0
    /\ sleeps' = 0
    /\ sleepTotal' = 0
    /\ onlyNetErrors' = TRUE
    /\ lastResp' = NoResp
    /\ UNCHANGED <<fsVars, sessionsOpened, verdict, message, menuShown, lastOp, saveVars,
                   didRead, hwid, interrupted>>

\* an Exception reaches line 397 of run: console.print or aiohttp.ClientSession()
\* raises on entry to verify_hwid (lines 156-159), or console.print raises after
\* verify_hwid returned (lines 367-368); "Critical error" is printed, then the finally
CriticalError ==
    /\ pc = "verify" \/ (pc = "verify_returned" /\ Denied(verdict))
    /\ EndRun("critical_error")
    /\ attempt' = 0
    /\ requests' = 0
    /\ sleeps' = 0
    /\ sleepTotal' = 0
    /\ onlyNetErrors' = TRUE
    /\ lastResp' = NoResp
    /\ UNCHANGED <<fsVars, sessionsOpened, verdict, message, menuShown, lastOp, saveVars,
                   didRead, hwid, interrupted>>

----------------------------------------------------------------------------
(* HWIDClient.run, lines 371-395: one turn of the menu loop per action *)

menuFrame == <<fsVars, sessionsOpened, verifyVars, saveVars, didRead, hwid, interrupted>>
menuLocal == <<settings, cipher, loadLog>>

\* choice "1": start_commits reads the settings and catches its own errors
StartCommits ==
    /\ pc = "menu"
    /\ menuShown' = TRUE
    /\ lastOp' = "start_commits"
    /\ UNCHANGED <<pc, session, endKind, menuLocal, menuFrame>>

\* choice "3"
ViewSettings ==
    /\ pc = "menu"
    /\ menuShown' = TRUE
    /\ lastOp' = "view_settings"
    /\ UNCHANGED <<pc, session, endKind, menuLocal, menuFrame>>

\* choice "4": commit.txt is no part of the settings store
ResetTemporaryFiles ==
    /\ pc = "menu"
    /\ menuShown' = TRUE
    /\ lastOp' = "reset_temporary_files"
    /\ UNCHANGED <<pc, session, endKind, menuLocal, menuFrame>>

\* the operations of the menu
Operations == {"start_commits", "update_settings", "view_settings", "reset_temporary_files"}

\* the exceptions tried for an operation that raises into the loop, e.g. console.input
\* at prompt_return on a closed stdin
OperationErrors == {"EOFError", "OSError"}

\* lines 393-395: an operation raises err; `except Exception` prints it, sleeps 2 s and
\* the loop goes on; any other exception leaves the loop
OperationRaises(op, err) ==
    /\ pc = "menu"
    /\ menuShown' = TRUE
    /\ lastOp' = op
    /\ IF CatchesException(err)
       THEN UNCHANGED <<pc, session, endKind, menuLocal>>
       ELSE EndRun("crashed")
    /\ UNCHANGED menuFrame

\* any other choice than "1".."5"
InvalidChoice ==
    /\ pc = "menu"
    /\ menuShown' = TRUE
    /\ UNCHANGED <<pc, lastOp, session, endKind, menuLocal, menuFrame>>

\* choice "5": break, then the finally clause
Exit ==
    /\ pc = "menu"
    /\ menuShown' = TRUE
    /\ EndRun("exit")
    /\ UNCHANGED <<lastOp, menuFrame>>

\* KeyboardInterrupt at the menu prompt: except KeyboardInterrupt: break
MenuInterrupt ==
    /\ pc = "menu"
    /\ menuShown' = TRUE
    /\ EndRun("interrupted")
    /\ UNCHANGED <<lastOp, menuFrame>>

----------------------------------------------------------------------------
(* HWIDClient.update_settings: the four prompts, lines 275-294 *)

updFrame == <<fsVars, cipher, loadLog, session, sessionsOpened, verifyVars, didRead, hwid,
              endKind, interrupted>>

\* choice "2"
UpdateSettings ==
    /\ pc = "menu"
    /\ menuShown' = TRUE
    /\ lastOp' = "update_settings"
    /\ pc' = "upd_total_day"
    /\ preFile' = settingsFile
    /\ updInput' = << >>
    /\ saveResult' = SaveState("not_called", "none", "none")
    /\ UNCHANGED <<settings, backupPath, updFrame>>

PromptTotalDay(s) ==
    /\ pc = "upd_total_day"
    /\ updInput' = s
    /\ IF NumberRejected(s)
       THEN pc' = "update_done" /\ UNCHANGED settings
       ELSE /\ pc' = "upd_commit_freq"
            /\ settings' = [settings EXCEPT !.total_day = IntOf(s)]
    /\ UNCHANGED <<menuShown, lastOp, preFile, backupPath, saveResult, updFrame>>

PromptCommitFreq(s) ==
    /\ pc = "upd_commit_freq"
    /\ updInput' = s
    /\ IF NumberRejected(s)
       THEN pc' = "update_done" /\ UNCHANGED settings
       ELSE /\ pc' = "upd_variability"
            /\ settings' = [settings EXCEPT !.commit_freq = IntOf(s)]
    /\ UNCHANGED <<menuShown, lastOp, preFile, backupPath, saveResult, updFrame>>

PromptVariability(s) ==
    /\ pc = "upd_variability"
    /\ updInput' = s
    /\ pc' = "upd_repo_link"
    /\ settings' = [settings EXCEPT !.variability = IsYes(s)]
    /\ UNCHANGED <<menuShown, lastOp, preFile, backupPath, saveResult, updFrame>>

\* a valid URL is stored and save_settings is entered (line 296)
PromptRepoLink(s) ==
    /\ pc = "upd_repo_link"
    /\ updInput' = s
    /\ IF RepoRejected(s)
       THEN pc' = "update_done" /\ UNCHANGED settings
       ELSE /\ pc' = "save_backup"
            /\ settings' = [settings EXCEPT !.repo_link = Strip(s)]
    /\ UNCHANGED <<menuShown, lastOp, preFile, backupPath, saveResult, updFrame>>

\* lines 297-304: the messages and prompt_return, back to the menu
UpdateReturn ==
    /\ pc \in {"update_done", "save_return"}
    /\ pc' = "menu"
    /\ updInput' = << >>
    /\ preFile' = NoFile
    /\ backupPath' = FALSE
    /\ saveResult' = NoSave
    /\ UNCHANGED <<settings, menuShown, lastOp, updFrame>>

----------------------------------------------------------------------------
(* HWIDClient.save_settings, one action per file-system step *)

saveFrame == <<os, keyFile, settings, cipher, loadLog, session, sessionsOpened,
               verifyVars, menuShown, lastOp, updInput, preFile, didRead, hwid,
               endKind, interrupted>>

\* lines 94-96: rename settings.dll to settings.bak; ioError: the rename raises OSError
SaveBackup(ioError) ==
    /\ pc = "save_backup"
    /\ IF ~Exists(settingsFile)
       THEN /\ pc' = "save_write"
            /\ UNCHANGED <<settingsFile, bakFile, backupPath, saveResult, staleBak>>
       ELSE /\ backupPath' = TRUE
            /\ LET r == Rename(os, settingsFile, bakFile) IN
               IF ioError \/ ~r.ok
               THEN /\ pc' = "save_handler"
                    /\ saveResult' = SaveState("failing", "rename",
                                        IF r.ok THEN "OSError" ELSE "FileExistsError")
                    /\ UNCHANGED <<settingsFile, bakFile, staleBak>>
               ELSE /\ pc' = "save_write"
                    /\ settingsFile' = r.src
                    /\ bakFile' = r.dst
                    /\ staleBak' = FALSE
                    /\ UNCHANGED saveResult
    /\ UNCHANGED saveFrame

\* lines 99-101
SaveWrite(outcome) ==
    /\ pc = "save_write"
    /\ CASE outcome = "written" ->
              /\ settingsFile' = Encrypt(cipher, Dumps(settings))
              /\ pc' = "save_unlink"
              /\ UNCHANGED saveResult
         [] outcome = "failed_no_file" ->
              /\ UNCHANGED settingsFile
              /\ pc' = "save_handler"
              /\ saveResult' = SaveState("failing", "write", "OSError")
         [] outcome = "failed_partial" ->
              /\ settingsFile' = Garbage
              /\ pc' = "save_handler"
              /\ saveResult' = SaveState("failing", "write", "OSError")
    /\ UNCHANGED <<bakFile, staleBak, backupPath, saveFrame>>

\* lines 104-105; ioError: unlink raises OSError
SaveUnlink(ioError) ==
    /\ pc = "save_unlink"
    /\ IF HasBackup(backupPath, bakFile)
       THEN IF ioError
            THEN /\ pc' = "save_handler"
                 /\ saveResult' = SaveState("failing", "unlink", "OSError")
                 /\ UNCHANGED <<bakFile, staleBak>>
            ELSE /\ pc' = "save_return"
                 /\ bakFile' = NoFile
                 /\ staleBak' = FALSE
                 /\ saveResult' = SaveState("ok", "none", "none")
       ELSE /\ pc' = "save_return"
            /\ saveResult' = SaveState("ok", "none", "none")
            /\ UNCHANGED <<bakFile, staleBak>>
    /\ UNCHANGED <<settingsFile, backupPath, saveFrame>>

\* lines 107-112: restore the backup and re-raise; a rename that raises replaces the
\* exception. update_settings catches what save_settings raises (line 301).
SaveHandler ==
    /\ pc = "save_handler"
    /\ IF HasBackup(backupPath, bakFile)
       THEN LET r == Rename(os, bakFile, settingsFile) IN
            IF r.ok
            THEN /\ settingsFile' = r.dst
                 /\ bakFile' = r.src
                 /\ staleBak' = FALSE
                 /\ saveResult' = SaveState("raised", saveResult.step, saveResult.error)
            ELSE /\ UNCHANGED <<settingsFile, bakFile, staleBak>>
                 /\ saveResult' = SaveState("raised", saveResult.step, "FileExistsError")
       ELSE /\ UNCHANGED <<settingsFile, bakFile, staleBak>>
            /\ saveResult' = SaveState("raised", saveResult.step, saveResult.error)
    /\ pc' = "save_return"
    /\ UNCHANGED <<backupPath, saveFrame>>

\* KeyboardInterrupt inside save_settings: `except Exception` does not catch it, the
\* menu loop does (line 390) and the run ends. During write_bytes the file may be
\* left created and incomplete.
SaveInterrupt(partial) ==
    /\ pc \in {"save_backup", "save_write", "save_unlink", "save_handler"}
    /\ IF pc = "save_write" /\ partial
       THEN settingsFile' = Garbage
       ELSE UNCHANGED settingsFile
    /\ interrupted' =
          IF pc = "save_write" /\ backupPath
          THEN [set |-> TRUE, orig |-> LoadSettings(DefaultSettings, preFile, cipher).settings]
          ELSE interrupted
    /\ staleBak' = Exists(bakFile)
    /\ EndRun("interrupted")
    /\ updInput' = << >>
    /\ preFile' = NoFile
    /\ backupPath' = FALSE
    /\ saveResult' = NoSave
    /\ UNCHANGED <<os, keyFile, bakFile, sessionsOpened, verifyVars, menuShown, lastOp,
                   didRead, hwid>>

----------------------------------------------------------------------------
Next ==
    \/ \E k \in DerivedKeys, o \in WriteOutcomes : Construct(k, o)
    \/ \E ok \in BOOLEAN : GetHwid(ok)
    \/ VerifyBegin
    \/ \E r \in Outcomes : Request(r)
    \/ Sleep
    \/ InterruptVerify
    \/ AfterVerify
    \/ CriticalError
    \/ StartCommits
    \/ ViewSettings
    \/ ResetTemporaryFiles
    \/ InvalidChoice
    \/ \E op \in Operations, e \in OperationErrors : OperationRaises(op, e)
    \/ Exit
    \/ MenuInterrupt
    \/ UpdateSettings
    \/ \E s \in NumInputs : PromptTotalDay(s)
    \/ \E s \in NumInputs : PromptCommitFreq(s)
    \/ \E s \in VarInputs : PromptVariability(s)
    \/ \E s \in RepoInputs : PromptRepoLink(s)
    \/ UpdateReturn
    \/ \E e \in BOOLEAN : SaveBackup(e)
    \/ \E o \in WriteOutcomes : SaveWrite(o)
    \/ \E e \in BOOLEAN : SaveUnlink(e)
    \/ SaveHandler
    \/ \E p \in BOOLEAN : SaveInterrupt(p)

Spec == Init /\ [][Next]_vars

----------------------------------------------------------------------------
(* Properties *)

\* C1: when every request of verify_hwid fails with a network-level error, verify_hwid
\* makes exactly 3 requests, sleeps 2 s between consecutive requests and not after the
\* last one, and returns at the transient-error site.
C1_RetryBound ==
    /\ (pc = "verify_returned" /\ onlyNetErrors) =>
          /\ requests = 3
          /\ sleeps = 2
          /\ sleepTotal = 4
          /\ verdict = "transient-error"
    /\ (pc = "request" /\ onlyNetErrors) => (sleeps = requests /\ requests < 3)
    /\ (pc = "sleep" /\ onlyNetErrors) => (sleeps = requests - 1 /\ requests < 3)

C1_Witness ==
    /\ pc = "verify_returned"
    /\ onlyNetErrors
    /\ requests = 3
    /\ lastResp = [kind |-> "neterr", err |-> "timeout"]
    /\ verdict = "transient-error"

\* C2: every received response yields a verdict at once: verified-active exactly when
\* the status is 200 and the body has exists = true, verified = true and
\* status = "active", and not-verified-or-inactive otherwise.
C2_VerdictMapping ==
    lastResp.kind = "http" =>
        /\ pc = "verify_returned"
        /\ verdict = IF /\ lastResp.status = 200
                        /\ lastResp.body.kind = "object"
                        /\ lastResp.body.exists = "true"
                        /\ lastResp.body.verified = "true"
                        /\ lastResp.body.status = "active"
                     THEN "verified-active"
                     ELSE "not-verified-or-inactive"

\* C3: the menu is displayed and a menu operation is executed only after verify_hwid
\* returned verified-active in the run; after any other verdict the run ends with the
\* menu never displayed.
C3_MenuGated ==
    /\ (menuShown \/ lastOp # "none" \/ pc \notin {"idle", "get_hwid", "verify", "request",
                                                   "sleep", "verify_returned", "ended"})
          => verdict = "verified-active"
    /\ (verdict \notin {"none", "verified-active"} /\ pc # "verify_returned")
          => (pc = "ended" /\ endKind \in {"denied", "critical_error"} /\ ~menuShown
              /\ lastOp = "none")

C3_Witness ==
    /\ pc = "menu"
    /\ menuShown
    /\ lastOp = "start_commits"
    /\ verdict = "verified-active"

\* C4: after a save interrupted between the rename to .bak and the end of the write,
\* the next load observes the settings the file held before that save.
C4_BackupSafety ==
    (pc = "get_hwid" /\ interrupted.set) => settings = interrupted.orig

\* C5: when a settings file existed and a step of save after the rename raises, save
\* returns with the error and the settings path holds the previous file again.
C5_RestoreOnFailure ==
    (/\ pc = "save_return"
     /\ saveResult.status = "raised"
     /\ saveResult.step \in {"write", "unlink"}
     /\ Exists(preFile)
     /\ LoadError(preFile, cipher) = "none")
        => (settingsFile = preFile /\ ~Exists(bakFile))

\* C6: after a successful save, a load from the default record with the same key
\* yields the saved record, field by field.
C6_RoundTrip ==
    (pc = "save_return" /\ saveResult.status = "ok") =>
        LET ld == LoadSettings(DefaultSettings, settingsFile, cipher) IN
        /\ ~ld.raised
        /\ ~ld.failed
        /\ \A f \in SettingsFields : ld.settings[f] = settings[f]

C6_Witness ==
    /\ pc = "save_return"
    /\ saveResult.status = "ok"
    /\ settings.total_day = 7
    /\ settings.variability
    /\ settings.author_name = "A"

\* C7: load never raises; without a settings file it returns the defaults, and with a
\* file that fails decryption or JSON parsing it warns and returns the defaults.
C7_LoadNeverRaises ==
    /\ endKind # "load_raised"
    /\ (pc = "get_hwid" /\ ~Exists(settingsFile)) =>
          (settings = DefaultSettings /\ loadLog = NoLog)
    /\ (pc = "get_hwid" /\ Exists(settingsFile)) =>
          IF DecryptFails(cipher, settingsFile)
          THEN settings = DefaultSettings /\ loadLog.failed
          ELSE LoadsFails(Decrypt(cipher, settingsFile))
                  => (settings = DefaultSettings /\ loadLog.failed)

C7_Witness ==
    /\ pc = "get_hwid"
    /\ settingsFile.kind = "token"
    /\ settingsFile.key # cipher
    /\ settings = DefaultSettings
    /\ loadLog.failed

\* C8: when a run has ended, however it ended, a session it opened is closed, and a
\* run opens at most one session.
C8_SessionScoped ==
    /\ sessionsOpened <= 1
    /\ pc = "ended" => session # "open"
    /\ (pc = "ended" /\ sessionsOpened > 0) => session = "closed"

C8_Witness ==
    /\ pc = "ended"
    /\ endKind = "interrupted"
    /\ sessionsOpened = 1
    /\ session = "closed"

\* C9: the settings file is read or written only after verify_hwid returned
\* verified-active in the run.
C9_SettingsAfterVerification ==
    (didRead \/ pc \in {"save_backup", "save_write", "save_unlink", "save_handler"})
        => verdict = "verified-active"

\* C9, amended: save runs, and settings.dll and settings.bak change, only after
\* verify_hwid returned verified-active in the run; the settings file is read only by
\* the load of the constructor.
C9_WriteAfterVerification ==
    /\ [](pc \in {"save_backup", "save_write", "save_unlink", "save_handler"}
             => verdict = "verified-active")
    /\ [][(settingsFile' # settingsFile \/ bakFile' # bakFile)
             => verdict = "verified-active"]_vars
    /\ [][(didRead' /\ ~didRead) => (pc \in {"idle", "ended"} /\ pc' = "get_hwid")]_vars

C9_Witness ==
    /\ didRead
    /\ pc = "save_unlink"
    /\ settingsFile # preFile
    /\ verdict = "verified-active"

\* a positive integer in decimal: digits, not all of them zero
PositiveNumeral(s) ==
    /\ Len(s) > 0
    /\ \A i \in 1..Len(s) : s[i] \in {"0", "1", "2", "3", "4", "5", "6", "7", "8", "9"}
    /\ \E i \in 1..Len(s) : s[i] # "0"

\* C10: update_settings reaches save only with a positive total_day, a positive
\* commit_freq and a repo_link ending in ".git"; a rejected input leaves save uncalled
\* and the settings file as it was; every record the update path writes is valid.
C10_ValidatedBeforeSave ==
    /\ pc \in {"upd_commit_freq", "upd_variability"} => PositiveNumeral(updInput)
    /\ pc \in {"upd_commit_freq", "upd_variability", "upd_repo_link"} =>
          (settings.total_day > 0 /\ saveResult.status = "not_called"
           /\ settingsFile = preFile)
    /\ pc \in {"upd_variability", "upd_repo_link"} => settings.commit_freq > 0
    /\ pc = "update_done" => (saveResult.status = "not_called" /\ settingsFile = preFile)
    /\ pc \in {"save_backup", "save_write", "save_unlink", "save_handler", "save_return"} =>
          /\ settings.total_day > 0
          /\ settings.commit_freq > 0
          /\ EndsWith(settings.repo_link, DotGit)
          /\ EndsWith(Strip(updInput), DotGit)
    /\ (pc = "save_unlink" \/ (pc = "save_return" /\ saveResult.status = "ok")) =>
          LET m == settingsFile.text.members IN
          /\ m.total_day.v > 0
          /\ m.commit_freq.v > 0
          /\ EndsWith(m.repo_link.v, DotGit)

C10_Witness ==
    /\ pc = "update_done"
    /\ updInput = <<"0">>
    /\ Exists(preFile)
    /\ settingsFile = preFile

\* C11: once key.key exists init_encryption never writes it and the key it returns is
\* the content of the file, so a second call on the file a first call found or created
\* returns the same key and leaves the same file.
C11_KeyIdempotent ==
    /\ [][Exists(keyFile) => keyFile' = keyFile]_vars
    /\ [](cipher # "none" => keyFile = KeyFileOf(cipher))
    /\ [](pc \in {"idle", "ended"} =>
          \A k1 \in Keys, k2 \in Keys, o1 \in WriteOutcomes, o2 \in WriteOutcomes :
            LET first  == InitEncryption(keyFile, k1, o1)
                second == InitEncryption(first.file, k2, o2)
            IN /\ Exists(keyFile) => first.file = keyFile
               /\ first.ok => (second.ok /\ second.key = first.key
                               /\ second.file = first.file))

\* a later run uses the key that the first run derived and wrote
C11_Witness ==
    /\ pc = "get_hwid"
    /\ interrupted.set
    /\ cipher \notin {"none", "K1"}
    /\ keyFile = KeyFileOf(cipher)

\* C12: after the load of a file that decrypts to an object, every settings field named
\* in the object has the object's value, every other field has its default, and a
\* warning was logged for exactly the names in the object that are no settings fields.
C12_MergeExact ==
    (pc = "get_hwid" /\ Exists(settingsFile) /\ LoadError(settingsFile, cipher) = "none") =>
        LET members == Decrypt(cipher, settingsFile).members IN
        /\ \A f \in SettingsFields :
              settings[f] = IF f \in DOMAIN members THEN PyValue(members[f])
                            ELSE DefaultSettings[f]
        /\ loadLog.unknown = DOMAIN members \ SettingsFields

\* C13: whenever no save_settings call is executing, and every save_settings call so
\* far has returned, with or without an error, there is no settings.bak.
C13_BakTransient ==
    (pc \notin {"save_backup", "save_write", "save_unlink", "save_handler"} /\ ~staleBak)
        => ~Exists(bakFile)

\* C14: an interrupt that arrives while verify_hwid sleeps before a retry ends the run:
\* no request follows it in the run, verify_hwid returns no verdict and the menu is
\* never reached.
C14_SleepInterruptAborts ==
    /\ [][(pc = "sleep" /\ sleeps' = sleeps) =>
             (/\ pc' = "ended"
              /\ endKind' = "interrupted"
              /\ requests' = requests
              /\ verdict' = "none"
              /\ ~menuShown')]_vars
    /\ []((pc = "ended" /\ endKind = "interrupted" /\ requests > sleeps) =>
             (verdict = "none" /\ ~menuShown /\ lastOp = "none"))
    /\ [][(pc = "ended" /\ endKind = "interrupted" /\ requests > sleeps) =>
             (pc' \in {"get_hwid", "ended"} /\ requests' = 0)]_vars

\* interrupted in the sleep that follows the second failed request
C14_Witness ==
    /\ pc = "ended"
    /\ endKind = "interrupted"
    /\ requests = 2
    /\ sleeps = 1
    /\ session = "closed"

\* C15: verify_hwid sleeps and retries only after a network-level error; after any HTTP
\* response it returns without a further request, and for a status other than 200 it
\* returns not-verified-or-inactive with the error message of the body, or with
\* "Unknown error" when the body has none.
C15_RetryOnlyOnNetworkErrors ==
    /\ pc \in {"request", "sleep"} => lastResp.kind # "http"
    /\ (pc = "verify_returned" /\ lastResp.kind = "http" /\ lastResp.status # 200) =>
          /\ requests = sleeps + 1
          /\ verdict = "not-verified-or-inactive"
          /\ message.kind = "verification_failed"
          /\ lastResp.body.kind = "object"
          /\ message.text = IF lastResp.body.error = "absent" THEN "Unknown error"
                            ELSE lastResp.body.error

\* C16: when init_encryption fails (key.key is not written, or holds no usable key), the
\* constructor raises and the run ends there: no fingerprint is computed, no session is
\* opened, no request is made and no menu operation runs.
C16_InitFailureStopsRun ==
    /\ [][(pc \in {"idle", "ended"} /\ keyFile'.kind # "key") =>
             (pc' = "ended" /\ endKind' = "init_failed" /\ cipher' = "none")]_vars
    /\ [](endKind = "init_failed" =>
             (/\ pc = "ended"
              /\ keyFile.kind # "key"
              /\ hwid = "none"
              /\ sessionsOpened = 0
              /\ session = "none"
              /\ requests = 0
              /\ verdict = "none"
              /\ ~menuShown
              /\ lastOp = "none"))

C16_Witness ==
    /\ pc = "ended"
    /\ endKind = "init_failed"
    /\ keyFile = BadKeyFile
    /\ Exists(settingsFile)
    /\ ~didRead

\* C17: when get_hwid fails, the run ends at once: no session is opened, no request is
\* made and the menu is not displayed.
C17_NoHwidStopsRun ==
    /\ [][(pc = "get_hwid" /\ hwid' = "None") =>
             (pc' = "ended" /\ endKind' = "no_hwid" /\ session' = "none")]_vars
    /\ [](hwid = "None" =>
             (/\ pc = "ended"
              /\ endKind = "no_hwid"
              /\ sessionsOpened = 0
              /\ session = "none"
              /\ requests = 0
              /\ verdict = "none"
              /\ ~menuShown
              /\ lastOp = "none"))

C17_Witness ==
    /\ pc = "ended"
    /\ endKind = "no_hwid"
    /\ hwid = "None"
    /\ session = "none"

\* C18: once verify_hwid has returned verified-active, a menu operation that raises, a
\* failed save included, leads back to the menu, and the run ends only by choice "5" or
\* by an interrupt of the user.
C18_OperationErrorKeepsLoop ==
    /\ [][(pc = "save_return" /\ saveResult.status = "raised") =>
             (pc' = "menu" /\ endKind' = "running")]_vars
    /\ [][(pc = "menu" /\ pc' = "ended") => endKind' \in {"exit", "interrupted"}]_vars
    /\ []((pc = "ended" /\ verdict = "verified-active") =>
             endKind \in {"exit", "interrupted"})

\* back at the menu after a save that failed and left its backup behind
C18_Witness ==
    /\ pc = "menu"
    /\ endKind = "running"
    /\ lastOp = "update_settings"
    /\ Exists(bakFile)
    /\ ~staleBak

\* C19: when save_settings starts with a settings file that decrypts to a settings
\* object, then after each of its file-system steps, on the way to success and on the way
\* through the handler, settings.dll or settings.bak holds a file that decrypts to a
\* settings object.
C19_AlwaysARecord ==
    (/\ pc \in {"save_backup", "save_write", "save_unlink", "save_handler", "save_return"}
     /\ LoadError(preFile, cipher) = "none")
        => \/ LoadError(settingsFile, cipher) = "none"
           \/ LoadError(bakFile, cipher) = "none"

\* C20: after an update_settings call that rejected an input, or whose save failed, the
\* record in memory is the record a load of the settings file yields.
C20_NoPartialUpdate ==
    (pc = "update_done" \/ (pc = "save_return" /\ saveResult.status = "raised")) =>
        settings = LoadSettings(DefaultSettings, settingsFile, cipher).settings

====
